---- MODULE Spec2Model ----
(***************************************************************************)
(* A model of google/gax/api_callable.py: the retry decorator              *)
(* (_retryable) and the flattened page-streaming decorator                 *)
(* (_page_streamable.flattened).                                           *)
(*                                                                         *)
(* Numbers.  The program computes with Python floats (true division is     *)
(* imported from __future__).  Every real number the program holds is      *)
(* stored here as the integer Fixed times it, so that dividing by          *)
(* _MILLIS_PER_SECOND is exact on every value the model produces.  A       *)
(* quantity the program holds in seconds is therefore stored in            *)
(* microseconds.                                                           *)
(***************************************************************************)
EXTENDS Integers, Sequences, FiniteSets, TLC

\* ------------------------------------------------------------------ bounds
\* The most underlying calls one retry invocation is followed through.
MaxAttempts == 4

\* The most pages the paged fixture holds, and the most resources in a page.
MaxPages == 3

MaxPageSize == 2

\* ---------------------------------------------------------------- constants
MILLIS_PER_SECOND == 1000

Fixed == MILLIS_PER_SECOND * MILLIS_PER_SECOND

\* An integer literal of the configuration as a stored real.
Real(x) == x * Fixed

\* x / _MILLIS_PER_SECOND on a stored real.
DivMillis(x) == x \div MILLIS_PER_SECOND

Min2(a, b) == IF a <= b THEN a ELSE b

Min3(a, b, c) == Min2(a, Min2(b, c))

\* ------------------------------------------------------------------ inputs
\* The status codes config.exc_to_code can give an exception.
StatusCodes == {"UNAVAILABLE", "DEADLINE_EXCEEDED", "INVALID_ARGUMENT"}

\* The RetryOptions the decorator is built with.
BackoffSettingsSet ==
    [ initial_retry_delay_millis : {1, 2},
      retry_delay_multiplier     : {1, 2},
      max_retry_delay_millis     : {4},
      initial_rpc_timeout_millis : {1, 3},
      rpc_timeout_multiplier     : {1, 2},
      max_rpc_timeout_millis     : {2, 4},
      total_timeout_millis       : {0, 2, 3} ]

RetryOptionsSet ==
    [ retry_codes      : {{"UNAVAILABLE", "DEADLINE_EXCEEDED"}},
      backoff_settings : BackoffSettingsSet ]

\* The underlying callable: whether it fails transiently on every call, and
\* the least time one call of it takes (stored seconds).
StubSet ==
    [ always_transient : BOOLEAN,
      min_latency      : {0, DivMillis(Real(1))} ]

\* How long one underlying call may take (stored seconds).
CallDurations == {0, DivMillis(Real(1))}

Responses == {"resp_a", "resp_b"}

\* The invocations of the wrapped callable that are followed.
Invocations == {1}

\* ------------------------------------------------------------------- state
VARIABLES
    retry,        \* the RetryOptions _retryable was given
    a_func,       \* the underlying callable's behaviour
    clock,        \* time.time()
    pc,           \* per invocation: "idle", "loop", "call", "sleep", "done"
    delay,        \* inner's local delay
    timeout,      \* inner's local timeout
    exc,          \* inner's local exc
    now,          \* inner's local now
    deadline,     \* inner's local deadline
    outcome,      \* "pending", "returned" or "raised"
    returned,     \* the value inner returned
    raised,       \* the error inner raised
    started_at,   \* the clock when inner was entered
    attempts,     \* underlying calls made so far
    sleeps,       \* time.sleep calls made so far
    passed,       \* the timeout handed to the latest underlying call
    passed_prev,  \* the timeout handed to the call before it
    remaining,    \* deadline - now when the latest timeout was handed over
    answered,     \* what the latest underlying call did
    slept,        \* the latest to_sleep drawn
    slept_bound   \* the delay the latest to_sleep was drawn under

retry_vars == << retry, a_func, clock, pc, delay, timeout, exc, now, deadline,
                 outcome, returned, raised, started_at, attempts, sleeps,
                 passed, passed_prev, remaining, answered, slept, slept_bound >>

VARIABLES
    pages,        \* the paged fixture the underlying callable serves
    request,      \* the caller's request object (args[0])
    gen_pc,       \* flattened's position: "uncalled", "start", "fetch",
                  \*   "retrying", "iterate", "finished", "raised"
    pulling,      \* the consumer is inside next() on the generator
    response,     \* flattened's local response
    pos,          \* the index of the next resource of response to yield
    calls,        \* underlying calls made so far
    called_with,  \* the request token of each underlying call, in order
    yielded,      \* the elements handed to the consumer, in order
    pulls         \* next() calls made by the consumer

page_vars == << pages, request, gen_pc, pulling, response, pos, calls,
                called_with, yielded, pulls >>

VARIABLES
    settings,       \* the CallSettings create_api_call is given
    api_errors,     \* config.API_ERRORS
    api_call,       \* what create_api_call gave: the wrappers put round func
    api_pc,         \* one invocation of the composed callable: "idle",
                    \*   "inner", "unwinding", "done"
    api_request,    \* the request the caller invoked it with
    api_kwargs,     \* the keyword arguments the caller invoked it with
    func_calls,     \* the positional arguments of each call of func
    inner_outcome,  \* what the wrapper next to func gave: "pending",
                    \*   "returned" or "raised"
    inner_returned, \* the value it returned
    inner_raised,   \* the error it raised
    api_outcome,    \* what the caller got: "pending", "returned" or "raised"
    api_returned,   \* the value the caller was returned
    api_raised,     \* the error the caller was raised
    scheduled,      \* the calls of bundler.schedule, in order
    handed_back     \* the invocations of the bundling wrapper, in order: what
                    \*   the caller passed and the handle it was returned

call_vars == << settings, api_errors, api_call, api_pc, api_request,
                api_kwargs, func_calls, inner_outcome, inner_returned,
                inner_raised, api_outcome, api_returned, api_raised,
                scheduled, handed_back >>

VARIABLES
    cs_args,        \* the arguments construct_settings is called with
    cs_pc,          \* its position: "start", "loop", "returned", "raised"
    todo,           \* the methods its loop has still to take
    defaults,       \* its local defaults
    cs_raised,      \* the exception that left it
    cs_returned     \* the dictionary it returned

settings_vars == << cs_args, cs_pc, todo, defaults, cs_raised, cs_returned >>

VARIABLES
    fetch_at        \* the clock at each call flattened made of a retry-wrapped
                    \*   a_func, in order

stream_vars == << fetch_at >>

outer_vars == << call_vars, settings_vars, stream_vars >>

vars == << retry_vars, page_vars, outer_vars >>

\* ------------------------------------------------------------------ errors
NoException == [ code |-> "NONE", attempt |-> 0 ]

\* The exception the underlying call raised on a given attempt.
Exception(code, n) == [ code |-> code, attempt |-> n ]

\* errors.RetryError(msg, cause)
RetryError(msg, cause) == [ msg |-> msg, cause |-> cause ]

NoError == RetryError("none", NoException)

MsgBeforeAnyResponse == "Retry total timeout exceeded before any response was received"

MsgWithException == "Retry total timeout exceeded with exception"

MsgNotTransient == "Exception occurred in retry method that was not classified as transient"

NoResponse == "no_response"

NoBackoffSettings ==
    [ initial_retry_delay_millis |-> 0, retry_delay_multiplier |-> 1,
      max_retry_delay_millis |-> 0, initial_rpc_timeout_millis |-> 0,
      rpc_timeout_multiplier |-> 1, max_rpc_timeout_millis |-> 0,
      total_timeout_millis |-> 0 ]

\* ------------------------------------------- _retryable: the closure values
delay_mult == retry.backoff_settings.retry_delay_multiplier

max_delay == DivMillis(Real(retry.backoff_settings.max_retry_delay_millis))

timeout_mult == retry.backoff_settings.rpc_timeout_multiplier

max_timeout == DivMillis(Real(retry.backoff_settings.max_rpc_timeout_millis))

total_timeout == DivMillis(Real(retry.backoff_settings.total_timeout_millis))

\* --------------------------------------------------- _retryable.inner steps
InitialDelay == Real(retry.backoff_settings.initial_retry_delay_millis)

InitialTimeout == DivMillis(Real(retry.backoff_settings.initial_rpc_timeout_millis))

InitialExc == RetryError(MsgBeforeAnyResponse, NoException)

LoopCondition_Flipped(n, dl) == n > dl

LoopCondition_Inclusive(n, dl) == n <= dl

\* while now < deadline
LoopCondition(n, dl) == n < dl

NotTransient_Inverted(e) == e.code \in retry.retry_codes

\* config.exc_to_code(exception) not in retry.retry_codes
NotTransient(e) == e.code \notin retry.retry_codes

\* delay = min(delay * delay_mult, max_delay)
NextDelay(d) == Min2(d * delay_mult, max_delay)

NextTimeout_SignSlip(t, dl, n) == Min3(t * timeout_mult, max_timeout, n - dl)

NextTimeout_NoDeadlineCap(t, dl, n) == Min2(t * timeout_mult, max_timeout)

\* timeout = min(timeout * timeout_mult, max_timeout, deadline - now)
NextTimeout(t, dl, n) == Min3(t * timeout_mult, max_timeout, dl - n)

\* The values random.uniform(0, delay) is followed through: both ends and
\* the middle of [0, delay].
UniformDraws(d) == {0, d \div 2, d}

\* Entering inner: lines 97-103.
Invoke(i) ==
    /\ pc[i] = "idle"
    /\ delay' = [delay EXCEPT ![i] = InitialDelay]
    /\ timeout' = [timeout EXCEPT ![i] = InitialTimeout]
    /\ exc' = [exc EXCEPT ![i] = InitialExc]
    /\ now' = [now EXCEPT ![i] = clock]
    /\ deadline' = [deadline EXCEPT ![i] = clock + total_timeout]
    /\ started_at' = [started_at EXCEPT ![i] = clock]
    /\ pc' = [pc EXCEPT ![i] = "loop"]
    /\ UNCHANGED << page_vars, outer_vars, retry, a_func, clock, outcome, returned, raised, attempts,
                    sleeps, passed, passed_prev, remaining, answered, slept,
                    slept_bound >>

\* The loop test passes: line 105.
LoopEnter(i) ==
    /\ pc[i] = "loop"
    /\ LoopCondition(now[i], deadline[i])
    /\ pc' = [pc EXCEPT ![i] = "call"]
    /\ UNCHANGED << page_vars, outer_vars, retry, a_func, clock, delay, timeout, exc, now, deadline,
                    outcome, returned, raised, started_at, attempts, sleeps,
                    passed, passed_prev, remaining, answered, slept,
                    slept_bound >>

\* The loop test fails: lines 105, 128.
LoopExit(i) ==
    /\ pc[i] = "loop"
    /\ ~LoopCondition(now[i], deadline[i])
    /\ outcome' = [outcome EXCEPT ![i] = "raised"]
    /\ raised' = [raised EXCEPT ![i] = exc[i]]
    /\ pc' = [pc EXCEPT ![i] = "done"]
    /\ UNCHANGED << page_vars, outer_vars, retry, a_func, clock, delay, timeout, exc, now, deadline,
                    returned, started_at, attempts, sleeps, passed,
                    passed_prev, remaining, answered, slept, slept_bound >>

\* What every underlying call does to the state, whatever it answers:
\* lines 107-108, the call itself taking d.
Called(i, d, what) ==
    /\ pc[i] = "call"
    /\ attempts[i] < MaxAttempts
    /\ d >= a_func.min_latency
    /\ clock' = clock + d
    /\ attempts' = [attempts EXCEPT ![i] = @ + 1]
    /\ passed' = [passed EXCEPT ![i] = timeout[i]]
    /\ passed_prev' = [passed_prev EXCEPT ![i] = passed[i]]
    /\ remaining' = [remaining EXCEPT ![i] = deadline[i] - now[i]]
    /\ answered' = [answered EXCEPT ![i] = what]

CallReturns_KeepsLooping(i, resp, d) ==
    /\ ~a_func.always_transient
    /\ Called(i, d, resp)
    /\ pc' = [pc EXCEPT ![i] = "loop"]
    /\ UNCHANGED << page_vars, outer_vars, retry, a_func, delay, timeout, exc, now, deadline, outcome,
                    returned, raised, started_at, sleeps, slept, slept_bound >>

\* The underlying call returns: line 108.
CallReturns(i, resp, d) ==
    /\ ~a_func.always_transient
    /\ Called(i, d, resp)
    /\ outcome' = [outcome EXCEPT ![i] = "returned"]
    /\ returned' = [returned EXCEPT ![i] = resp]
    /\ pc' = [pc EXCEPT ![i] = "done"]
    /\ UNCHANGED << page_vars, outer_vars, retry, a_func, delay, timeout, exc, now, deadline, raised,
                    started_at, sleeps, slept, slept_bound >>

\* The underlying call raises an error that is not retried: lines 111-115.
CallRaisesFatal(i, e, d) ==
    /\ ~a_func.always_transient
    /\ NotTransient(e)
    /\ Called(i, d, e.code)
    /\ outcome' = [outcome EXCEPT ![i] = "raised"]
    /\ raised' = [raised EXCEPT ![i] = RetryError(MsgNotTransient, e)]
    /\ pc' = [pc EXCEPT ![i] = "done"]
    /\ UNCHANGED << page_vars, outer_vars, retry, a_func, delay, timeout, exc, now, deadline,
                    returned, started_at, sleeps, slept, slept_bound >>

CallRaisesTransient_KeepsExc(i, e, d) ==
    /\ ~NotTransient(e)
    /\ Called(i, d, e.code)
    /\ pc' = [pc EXCEPT ![i] = "sleep"]
    /\ UNCHANGED << page_vars, outer_vars, retry, a_func, delay, timeout, exc, now, deadline, outcome,
                    returned, raised, started_at, sleeps, slept, slept_bound >>

\* The underlying call raises a transient error: lines 111-119.
CallRaisesTransient(i, e, d) ==
    /\ ~NotTransient(e)
    /\ Called(i, d, e.code)
    /\ exc' = [exc EXCEPT ![i] = RetryError(MsgWithException, e)]
    /\ pc' = [pc EXCEPT ![i] = "sleep"]
    /\ UNCHANGED << page_vars, outer_vars, retry, a_func, delay, timeout, now, deadline, outcome,
                    returned, raised, started_at, sleeps, slept, slept_bound >>

Backoff_StaleNow(i, to_sleep) ==
    /\ pc[i] = "sleep"
    /\ to_sleep \in UniformDraws(delay[i])
    /\ clock' = clock + DivMillis(to_sleep)
    /\ delay' = [delay EXCEPT ![i] = NextDelay(delay[i])]
    /\ timeout' = [timeout EXCEPT ![i] =
                      NextTimeout(timeout[i], deadline[i], now[i])]
    /\ sleeps' = [sleeps EXCEPT ![i] = @ + 1]
    /\ slept' = [slept EXCEPT ![i] = to_sleep]
    /\ slept_bound' = [slept_bound EXCEPT ![i] = delay[i]]
    /\ pc' = [pc EXCEPT ![i] = "loop"]
    /\ UNCHANGED << page_vars, outer_vars, retry, a_func, exc, now, deadline, outcome, returned,
                    raised, started_at, attempts, passed, passed_prev,
                    remaining, answered >>

Backoff_SharedDelay(i, to_sleep) ==
    /\ pc[i] = "sleep"
    /\ to_sleep \in UniformDraws(delay[i])
    /\ clock' = clock + DivMillis(to_sleep)
    /\ now' = [now EXCEPT ![i] = clock']
    /\ delay' = [j \in DOMAIN delay |-> NextDelay(delay[i])]
    /\ timeout' = [timeout EXCEPT ![i] =
                      NextTimeout(timeout[i], deadline[i], clock')]
    /\ sleeps' = [sleeps EXCEPT ![i] = @ + 1]
    /\ slept' = [slept EXCEPT ![i] = to_sleep]
    /\ slept_bound' = [slept_bound EXCEPT ![i] = delay[i]]
    /\ pc' = [pc EXCEPT ![i] = "loop"]
    /\ UNCHANGED << page_vars, outer_vars, retry, a_func, exc, deadline, outcome, returned, raised,
                    started_at, attempts, passed, passed_prev, remaining,
                    answered >>

\* The backoff: lines 120-126.
Backoff(i, to_sleep) ==
    /\ pc[i] = "sleep"
    /\ to_sleep \in UniformDraws(delay[i])
    /\ clock' = clock + DivMillis(to_sleep)
    /\ now' = [now EXCEPT ![i] = clock']
    /\ delay' = [delay EXCEPT ![i] = NextDelay(delay[i])]
    /\ timeout' = [timeout EXCEPT ![i] =
                      NextTimeout(timeout[i], deadline[i], clock')]
    /\ sleeps' = [sleeps EXCEPT ![i] = @ + 1]
    /\ slept' = [slept EXCEPT ![i] = to_sleep]
    /\ slept_bound' = [slept_bound EXCEPT ![i] = delay[i]]
    /\ pc' = [pc EXCEPT ![i] = "loop"]
    /\ UNCHANGED << page_vars, outer_vars, retry, a_func, exc, deadline, outcome, returned, raised,
                    started_at, attempts, passed, passed_prev, remaining,
                    answered >>

\* No invocation of the set S has been made yet.
RetryStartOver(S) ==
    /\ clock = 0
    /\ pc = [i \in S |-> "idle"]
    /\ delay = [i \in S |-> 0]
    /\ timeout = [i \in S |-> 0]
    /\ exc = [i \in S |-> NoError]
    /\ now = [i \in S |-> 0]
    /\ deadline = [i \in S |-> 0]
    /\ outcome = [i \in S |-> "pending"]
    /\ returned = [i \in S |-> NoResponse]
    /\ raised = [i \in S |-> NoError]
    /\ started_at = [i \in S |-> 0]
    /\ attempts = [i \in S |-> 0]
    /\ sleeps = [i \in S |-> 0]
    /\ passed = [i \in S |-> 0]
    /\ passed_prev = [i \in S |-> 0]
    /\ remaining = [i \in S |-> 0]
    /\ answered = [i \in S |-> NoResponse]
    /\ slept = [i \in S |-> 0]
    /\ slept_bound = [i \in S |-> 0]

\* No invocation has been made yet.
RetryStart == RetryStartOver(Invocations)

\* _retryable(a_func, retry) has been built and not yet invoked.
RetryInit ==
    /\ retry \in RetryOptionsSet
    /\ a_func \in StubSet
    /\ RetryStart

\* The retry decorator is not part of the call.
RetryUnused ==
    /\ retry = [ retry_codes |-> {}, backoff_settings |-> NoBackoffSettings ]
    /\ a_func = [ always_transient |-> FALSE, min_latency |-> 0 ]
    /\ RetryStart

RetryNext ==
    \E i \in Invocations :
        \/ Invoke(i)
        \/ LoopEnter(i)
        \/ LoopExit(i)
        \/ \E resp \in Responses, d \in CallDurations : CallReturns(i, resp, d)
        \/ \E code \in StatusCodes, d \in CallDurations :
               CallRaisesFatal(i, Exception(code, attempts[i] + 1), d)
        \/ \E code \in StatusCodes, d \in CallDurations :
               CallRaisesTransient(i, Exception(code, attempts[i] + 1), d)
        \/ \E to_sleep \in UniformDraws(delay[i]) : Backoff(i, to_sleep)

\* ------------------------------------------ _page_streamable.flattened
\* The continuation token of a response: 0 is the empty token, k > 0 asks
\* for the page after the k-th.
EmptyToken == 0

\* The resources of the k-th page holding n of them: each names its page and
\* its place in it.
Resources(k, n) == [ j \in 1..n |-> << k, j >> ]

\* The fixtures: 1..MaxPages pages of 0..MaxPageSize resources each; a page
\* answers with the token of the page after it or with the empty token, the
\* last page with the empty token.
Fixtures ==
    UNION { { f \in [ 1..n -> [ size : 0..MaxPageSize, more : BOOLEAN ] ] :
                ~f[n].more } : n \in 1..MaxPages }

Page(f, k) ==
    [ resources       |-> Resources(k, f[k].size),
      next_page_token |-> IF f[k].more THEN k ELSE EmptyToken ]

NoPage == [ resources |-> << >>, next_page_token |-> EmptyToken ]

\* a_func(request): the page the request's token asks for.
Serve(req) == pages[req.page_token + 1]

HasNext_DropsLast(resp, p) == p < Len(resp.resources)

\* the for loop of line 187 has another resource to yield
HasNext(resp, p) == p <= Len(resp.resources)

\* not next_page_token
IsEmpty(tok) == tok = EmptyToken

Flattened_Eager ==
    /\ gen_pc = "uncalled"
    /\ response' = Serve(request)
    /\ calls' = calls + 1
    /\ called_with' = Append(called_with, request.page_token)
    /\ pos' = 1
    /\ gen_pc' = "iterate"
    /\ UNCHANGED << retry_vars, outer_vars, pages, request, pulling, yielded, pulls >>

\* Calling the wrapped callable: the generator is made, none of its body
\* runs (line 182).
Flattened ==
    /\ gen_pc = "uncalled"
    /\ gen_pc' = "start"
    /\ UNCHANGED << retry_vars, outer_vars, pages, request, pulling, response, pos, calls,
                    called_with, yielded, pulls >>

\* The consumer asks the generator for its next element; a generator that
\* has not started runs line 184 and enters the loop.
Pull ==
    /\ ~pulling
    /\ gen_pc \in {"start", "iterate"}
    /\ pulling' = TRUE
    /\ pulls' = pulls + 1
    /\ gen_pc' = IF gen_pc = "start" THEN "fetch" ELSE gen_pc
    /\ UNCHANGED << retry_vars, outer_vars, pages, request, response, pos, calls,
                    called_with, yielded >>

\* response = a_func(request, **kwargs): line 186.
Fetch ==
    /\ pulling
    /\ gen_pc = "fetch"
    /\ response' = Serve(request)
    /\ calls' = calls + 1
    /\ called_with' = Append(called_with, request.page_token)
    /\ pos' = 1
    /\ gen_pc' = "iterate"
    /\ UNCHANGED << retry_vars, outer_vars, pages, request, pulling, yielded, pulls >>

\* yield obj: lines 187-188; the generator is suspended.
Yield ==
    /\ pulling
    /\ gen_pc = "iterate"
    /\ HasNext(response, pos)
    /\ yielded' = Append(yielded, response.resources[pos])
    /\ pos' = pos + 1
    /\ pulling' = FALSE
    /\ UNCHANGED << retry_vars, outer_vars, pages, request, gen_pc, response, calls,
                    called_with, pulls >>

\* The page is used up and its token is empty: lines 189-192; the generator
\* ends.
Break ==
    /\ pulling
    /\ gen_pc = "iterate"
    /\ ~HasNext(response, pos)
    /\ IsEmpty(response.next_page_token)
    /\ gen_pc' = "finished"
    /\ pulling' = FALSE
    /\ UNCHANGED << retry_vars, outer_vars, pages, request, response, pos, calls,
                    called_with, yielded, pulls >>

CarryToken_NoWrite ==
    /\ pulling
    /\ gen_pc = "iterate"
    /\ ~HasNext(response, pos)
    /\ ~IsEmpty(response.next_page_token)
    /\ gen_pc' = "fetch"
    /\ UNCHANGED << retry_vars, outer_vars, pages, request, pulling, response, pos, calls,
                    called_with, yielded, pulls >>

\* The page is used up and its token is not empty: lines 189-195; the token
\* is written into the request and the loop goes round.
CarryToken ==
    /\ pulling
    /\ gen_pc = "iterate"
    /\ ~HasNext(response, pos)
    /\ ~IsEmpty(response.next_page_token)
    /\ request' = [request EXCEPT !.page_token = response.next_page_token]
    /\ gen_pc' = "fetch"
    /\ UNCHANGED << retry_vars, outer_vars, pages, pulling, response, pos, calls,
                    called_with, yielded, pulls >>

\* The caller's request starts with no token.
PageStart ==
    /\ request = [ page_token |-> EmptyToken ]
    /\ gen_pc = "uncalled"
    /\ pulling = FALSE
    /\ response = NoPage
    /\ pos = 0
    /\ calls = 0
    /\ called_with = << >>
    /\ yielded = << >>
    /\ pulls = 0

PageInit ==
    /\ pages \in { [ k \in DOMAIN f |-> Page(f, k) ] : f \in Fixtures }
    /\ PageStart

\* Page streaming is not part of the call.
PageUnused ==
    /\ pages = << NoPage >>
    /\ PageStart

PageNext ==
    \/ Flattened
    \/ Pull
    \/ Fetch
    \/ Yield
    \/ Break
    \/ CarryToken

\* ------------------------------------------------- create_api_call: inputs
\* Python's None.
None == [ is_none |-> TRUE ]

Timeouts == {30}

\* settings.retry: absent, present with no retry codes, present with some.
CallRetrySet ==
    {None} \cup
    [ retry_codes      : {{}, {"UNAVAILABLE", "DEADLINE_EXCEEDED"}},
      backoff_settings :
          [ initial_retry_delay_millis : {2},
            retry_delay_multiplier     : {2},
            max_retry_delay_millis     : {1000},
            initial_rpc_timeout_millis : {1},
            rpc_timeout_multiplier     : {2},
            max_rpc_timeout_millis     : {4},
            total_timeout_millis       : {2} ] ]

PageDescriptors ==
    { [ request_page_token_field  |-> "page_token",
        response_page_token_field |-> "next_page_token",
        resource_field            |-> "resources" ] }

BundleDescriptors ==
    { [ request_discriminator_fields |-> << "topic" >> ],
      [ request_discriminator_fields |-> << "topic", "kind" >> ] }

Bundlers == { [ executor |-> "executor" ] }

\* settings.flatten_pages: None, True or False.
FlattenPagesSet == {"None", "True", "False"}

CallSettingsSet ==
    [ timeout           : Timeouts,
      retry             : CallRetrySet,
      page_descriptor   : {None} \cup PageDescriptors,
      flatten_pages     : FlattenPagesSet,
      bundler           : {None} \cup Bundlers,
      bundle_descriptor : {None} \cup BundleDescriptors ]

\* The requests and keyword arguments a caller invokes the API call with.
Requests == [ topic : {"t1", "t2"}, kind : {"k1"}, body : {"m1", "m2"} ]

Kwargs == { [ metadata |-> "none" ], [ metadata |-> "trace" ] }

\* The deferred-result handles bundler.schedule gives.
Events == {"event_a", "event_b"}

\* The types of the exceptions the bare callable raises.  ExpirationError
\* is a subclass of AbortionError; the others derive from Exception only.
ExceptionTypes == {"AbortionError", "ExpirationError", "ValueError"}

BaseOf(type) == IF type = "ExpirationError" THEN "AbortionError"
                ELSE "Exception"

\* config.API_ERRORS: the transport's exception types.
ApiErrorsSet == { {"AbortionError"}, {"ExpirationError"}, {} }

\* How many invocations of a bundling call are followed.
MaxBundled == 2

\* An exception object as the outer wrappers see it.
Raised(type, msg, cause) == [ type |-> type, msg |-> msg, cause |-> cause ]

NothingRaised == Raised("none", "none", NoException)

\* GaxError(msg, cause)
GaxError(msg, cause) == Raised("GaxError", msg, cause)

MsgRpcFailed == "RPC failed"

MsgFromFunc == "raised by func"

\* ------------------------------------------------ create_api_call: wrappers
\* inner of _add_timeout_arg: updated_args = args + (timeout,)
add_timeout_arg(args, a_timeout) == args \o << a_timeout >>

\* bundling.compute_bundle_id(request, discriminator_fields)
compute_bundle_id(obj, fields) == [ k \in 1..Len(fields) |-> obj[fields[k]] ]

\* isinstance(exception, tuple(errors))
IsInstance(type, errors) == type \in errors \/ BaseOf(type) \in errors

\* raise (a, b, c): the statement is given one expression, a tuple, and
\* the interpreter raises the tuple's first item.
RaiseTuple(tuple) == tuple[1]

RetryConfigured_AnyOptions(s) == s.retry # None

\* `settings.retry and settings.retry.retry_codes`
RetryConfigured(s) == s.retry # None /\ s.retry.retry_codes # {}

\* `settings.bundler and settings.bundle_descriptor`
BundlingConfigured(s) == s.bundler # None /\ s.bundle_descriptor # None

Composed(layers, flatten) ==
    [ status |-> "callable", layers |-> layers, flatten_pages |-> flatten ]

Uncomposed ==
    [ status |-> "uncomposed", layers |-> << >>, flatten_pages |-> "None" ]

create_api_call_PageWins(s) ==
    LET api == << IF RetryConfigured(s) THEN "_retryable"
                  ELSE "_add_timeout_arg" >>
    IN  IF s.page_descriptor # None
        THEN Composed(Append(api, "_page_streamable"),
                      IF s.flatten_pages = "None" THEN "True"
                      ELSE s.flatten_pages)
        ELSE IF BundlingConfigured(s)
             THEN Composed(Append(api, "_bundleable"), "None")
             ELSE Composed(Append(api, "_catch_errors"), "None")

create_api_call_BareRetry(s) ==
    LET api == << IF RetryConfigured(s) THEN "_retryable"
                  ELSE "_add_timeout_arg" >>
    IN  IF s.page_descriptor # None
        THEN IF BundlingConfigured(s)
             THEN [ status |-> "ValueError", layers |-> << >>,
                    flatten_pages |-> "None" ]
             ELSE Composed(Append(api, "_page_streamable"),
                           IF s.flatten_pages = "None" THEN "True"
                           ELSE s.flatten_pages)
        ELSE IF BundlingConfigured(s)
             THEN Composed(Append(api, "_bundleable"), "None")
             ELSE IF RetryConfigured(s) THEN Composed(api, "None")
             ELSE Composed(Append(api, "_catch_errors"), "None")

\* What create_api_call gives: the wrappers round func, innermost first,
\* or the error it raises.
create_api_call(s) ==
    LET api == << IF RetryConfigured(s) THEN "_retryable"
                  ELSE "_add_timeout_arg" >>
    IN  IF s.page_descriptor # None
        THEN IF BundlingConfigured(s)
             THEN [ status |-> "ValueError", layers |-> << >>,
                    flatten_pages |-> "None" ]
             ELSE Composed(Append(api, "_page_streamable"),
                           IF s.flatten_pages = "None" THEN "True"
                           ELSE s.flatten_pages)
        ELSE IF BundlingConfigured(s)
             THEN Composed(Append(api, "_bundleable"), "None")
             ELSE Composed(Append(api, "_catch_errors"), "None")

Innermost(api) == api.layers[1]

Outermost(api) == api.layers[Len(api.layers)]

retry_locals == << a_func, clock, pc, delay, timeout, exc, now, deadline,
                   outcome, returned, raised, started_at, attempts, sleeps,
                   passed, passed_prev, remaining, answered, slept,
                   slept_bound >>

\* ------------------------------------------------- create_api_call: actions
\* create_api_call(func, settings).  _retryable(func, settings.retry) reads
\* the retry options into its closure.
CreateApiCall ==
    /\ api_call = Uncomposed
    /\ api_call' = create_api_call(settings)
    /\ retry' = IF RetryConfigured(settings) THEN settings.retry ELSE retry
    /\ UNCHANGED << page_vars, retry_locals, settings_vars, stream_vars, settings, api_errors, api_pc,
                    api_request, api_kwargs, func_calls, inner_outcome,
                    inner_returned, inner_raised, api_outcome, api_returned,
                    api_raised, scheduled, handed_back >>

\* The caller invokes the API call; inner of _catch_errors enters its try
\* block and calls the wrapper inside it.
ApiInvoke(req, kw) ==
    /\ api_call.status = "callable"
    /\ Outermost(api_call) = "_catch_errors"
    /\ api_pc = "idle"
    /\ api_pc' = "inner"
    /\ api_request' = req
    /\ api_kwargs' = kw
    /\ UNCHANGED << retry_vars, page_vars, settings_vars, stream_vars, settings, api_errors, api_call,
                    func_calls, inner_outcome, inner_returned, inner_raised,
                    api_outcome, api_returned, api_raised, scheduled,
                    handed_back >>

\* inner of _add_timeout_arg calls func, which answers or raises.
TimeoutArgCalled(what, resp, err) ==
    /\ api_pc = "inner"
    /\ Innermost(api_call) = "_add_timeout_arg"
    /\ func_calls' = Append(func_calls,
           [ args |-> add_timeout_arg(<< api_request >>, settings.timeout),
             kw   |-> api_kwargs ])
    /\ inner_outcome' = what
    /\ inner_returned' = resp
    /\ inner_raised' = err
    /\ api_pc' = "unwinding"
    /\ UNCHANGED << retry_vars, page_vars, settings_vars, stream_vars, settings, api_errors, api_call,
                    api_request, api_kwargs, api_outcome, api_returned,
                    api_raised, scheduled, handed_back >>

FuncReturns(resp) == TimeoutArgCalled("returned", resp, NothingRaised)

FuncRaises(type) ==
    TimeoutArgCalled("raised", NoResponse,
                     Raised(type, MsgFromFunc, NoException))

\* inner of _retryable runs inside the try block.
RetryableRuns ==
    /\ api_pc = "inner"
    /\ Innermost(api_call) = "_retryable"
    /\ RetryNext

\* inner of _retryable returns or raises: what it gives is what the try
\* block sees.
RetryableEnds ==
    /\ api_pc = "inner"
    /\ Innermost(api_call) = "_retryable"
    /\ \E i \in Invocations :
           /\ pc[i] = "done"
           /\ inner_outcome' = outcome[i]
           /\ inner_returned' = returned[i]
           /\ inner_raised' =
                  IF outcome[i] = "raised"
                  THEN Raised("RetryError", raised[i].msg, raised[i].cause)
                  ELSE NothingRaised
    /\ api_pc' = "unwinding"
    /\ UNCHANGED << retry_vars, page_vars, settings_vars, stream_vars, settings, api_errors, api_call,
                    api_request, api_kwargs, func_calls, api_outcome,
                    api_returned, api_raised, scheduled, handed_back >>

\* The try block's return.
CatchReturns ==
    /\ api_pc = "unwinding"
    /\ inner_outcome = "returned"
    /\ api_outcome' = "returned"
    /\ api_returned' = inner_returned
    /\ api_pc' = "done"
    /\ UNCHANGED << retry_vars, page_vars, settings_vars, stream_vars, settings, api_errors, api_call,
                    api_request, api_kwargs, func_calls, inner_outcome,
                    inner_returned, inner_raised, api_raised, scheduled,
                    handed_back >>

CatchWraps_LosesCause ==
    /\ api_pc = "unwinding"
    /\ inner_outcome = "raised"
    /\ IsInstance(inner_raised.type, api_errors)
    /\ api_outcome' = "raised"
    /\ api_raised' = RaiseTuple(<< GaxError(MsgRpcFailed, NoException),
                                  None, "traceback" >>)
    /\ api_pc' = "done"
    /\ UNCHANGED << retry_vars, page_vars, settings_vars, stream_vars, settings, api_errors, api_call,
                    api_request, api_kwargs, func_calls, inner_outcome,
                    inner_returned, inner_raised, api_returned, scheduled,
                    handed_back >>

\* The except clause matches and raises the GaxError.
CatchWraps ==
    /\ api_pc = "unwinding"
    /\ inner_outcome = "raised"
    /\ IsInstance(inner_raised.type, api_errors)
    /\ api_outcome' = "raised"
    /\ api_raised' = RaiseTuple(<< GaxError(MsgRpcFailed, inner_raised),
                                  None, "traceback" >>)
    /\ api_pc' = "done"
    /\ UNCHANGED << retry_vars, page_vars, settings_vars, stream_vars, settings, api_errors, api_call,
                    api_request, api_kwargs, func_calls, inner_outcome,
                    inner_returned, inner_raised, api_returned, scheduled,
                    handed_back >>

\* The except clause does not match: the exception leaves inner as it is.
CatchPasses ==
    /\ api_pc = "unwinding"
    /\ inner_outcome = "raised"
    /\ ~ IsInstance(inner_raised.type, api_errors)
    /\ api_outcome' = "raised"
    /\ api_raised' = inner_raised
    /\ api_pc' = "done"
    /\ UNCHANGED << retry_vars, page_vars, settings_vars, stream_vars, settings, api_errors, api_call,
                    api_request, api_kwargs, func_calls, inner_outcome,
                    inner_returned, inner_raised, api_returned, scheduled,
                    handed_back >>

Bundleable_CallsFunc(req, kw, event) ==
    /\ api_call.status = "callable"
    /\ Outermost(api_call) = "_bundleable"
    /\ Len(scheduled) < MaxBundled
    /\ scheduled' = Append(scheduled,
           [ a_func  |-> Innermost(api_call),
             the_id  |-> compute_bundle_id(req,
                 settings.bundle_descriptor.request_discriminator_fields),
             desc    |-> settings.bundle_descriptor,
             request |-> req,
             kwargs  |-> kw,
             event   |-> event ])
    /\ handed_back' = Append(handed_back,
           [ request |-> req, kwargs |-> kw, event |-> event ])
    /\ func_calls' = Append(func_calls, [ args |-> << req >>, kw |-> kw ])
    /\ UNCHANGED << retry_vars, page_vars, settings_vars, stream_vars, settings, api_errors, api_call,
                    api_pc, api_request, api_kwargs, inner_outcome,
                    inner_returned, inner_raised, api_outcome, api_returned,
                    api_raised >>

\* inner of _bundleable: one call of bundler.schedule, whose handle is
\* returned.
Bundleable(req, kw, event) ==
    /\ api_call.status = "callable"
    /\ Outermost(api_call) = "_bundleable"
    /\ Len(scheduled) < MaxBundled
    /\ scheduled' = Append(scheduled,
           [ a_func  |-> Innermost(api_call),
             the_id  |-> compute_bundle_id(req,
                 settings.bundle_descriptor.request_discriminator_fields),
             desc    |-> settings.bundle_descriptor,
             request |-> req,
             kwargs  |-> kw,
             event   |-> event ])
    /\ handed_back' = Append(handed_back,
           [ request |-> req, kwargs |-> kw, event |-> event ])
    /\ UNCHANGED << retry_vars, page_vars, settings_vars, stream_vars, settings, api_errors, api_call,
                    api_pc, api_request, api_kwargs, func_calls,
                    inner_outcome, inner_returned, inner_raised, api_outcome,
                    api_returned, api_raised >>

CallStart ==
    /\ api_call = Uncomposed
    /\ api_pc = "idle"
    /\ api_request = [ topic |-> "none", kind |-> "none", body |-> "none" ]
    /\ api_kwargs = [ metadata |-> "none" ]
    /\ func_calls = << >>
    /\ inner_outcome = "pending"
    /\ inner_returned = NoResponse
    /\ inner_raised = NothingRaised
    /\ api_outcome = "pending"
    /\ api_returned = NoResponse
    /\ api_raised = NothingRaised
    /\ scheduled = << >>
    /\ handed_back = << >>

CallInit ==
    /\ settings \in CallSettingsSet
    /\ api_errors \in ApiErrorsSet
    /\ CallStart

\* create_api_call is not part of the run.
CallUnused ==
    /\ settings = [ timeout |-> 30, retry |-> None, page_descriptor |-> None,
                    flatten_pages |-> "None", bundler |-> None,
                    bundle_descriptor |-> None ]
    /\ api_errors = {}
    /\ CallStart

CallNext ==
    \/ CreateApiCall
    \/ \E req \in Requests, kw \in Kwargs : ApiInvoke(req, kw)
    \/ \E resp \in Responses : FuncReturns(resp)
    \/ \E type \in ExceptionTypes : FuncRaises(type)
    \/ RetryableRuns
    \/ RetryableEnds
    \/ CatchReturns
    \/ CatchWraps
    \/ CatchPasses
    \/ \E req \in Requests, kw \in Kwargs, event \in Events :
           Bundleable(req, kw, event)

\* ------------------------------------------------ construct_settings: inputs
\* Names are the sequences of their characters.
Name_Get == << "G", "e", "t" >>

Name_LiFo == << "L", "i", "F", "o" >>

Name_get == << "g", "e", "t" >>

Name_li_fo == << "l", "i", "_", "f", "o" >>

MethodNames == {Name_Get, Name_LiFo}

\* char.lower() for the upper-case characters of the names.
LowerOf == [ G |-> "g", L |-> "l", F |-> "f" ]

\* char.isupper()
IsUpper(char) == char \in DOMAIN LowerOf

Lower(char) == IF IsUpper(char) THEN LowerOf[char] ELSE char

\* OPTION_INHERIT, an object unlike any other.
OPTION_INHERIT == [ option |-> "inherit" ]

ServiceName == "google.fake.v1.ServiceName"

ServiceNames == {ServiceName, "google.fake.v1.Other"}

\* The document's retry_codes and retry_params entries.
DocRetryCodes ==
    [ idempotent     |-> << "UNAVAILABLE", "DEADLINE_EXCEEDED" >>,
      non_idempotent |-> << >> ]

DocRetryParams ==
    [ default |-> [ initial_retry_delay_millis |-> 100,
                    retry_delay_multiplier     |-> 2,
                    max_retry_delay_millis     |-> 1000,
                    initial_rpc_timeout_millis |-> 2000,
                    rpc_timeout_multiplier     |-> 2,
                    max_rpc_timeout_millis     |-> 30000,
                    total_timeout_millis       |-> 45000 ] ]

\* A methods entry names its retry codes, may name its retry params and
\* may configure bundling; the names may be keys of the document or not.
CodesNames == {"idempotent", "non_idempotent", "no_such_codes"}

ParamsNames == {"default", "no_such_params"}

DocBundling == [ element_count_threshold |-> 40,
                 delay_threshold_millis  |-> 100 ]

MethodConfigs ==
    [ retry_codes_name : CodesNames ] \cup
    [ retry_codes_name : CodesNames, retry_params_name : ParamsNames ] \cup
    [ retry_codes_name : {"idempotent"}, retry_params_name : ParamsNames,
      bundling : {DocBundling} ]

ClientConfigs ==
    { [ interfaces |->
          [ name \in {ServiceName} |->
              [ retry_codes  |-> DocRetryCodes,
                retry_params |-> DocRetryParams,
                methods      |-> methods ] ] ] :
      methods \in [ MethodNames -> MethodConfigs ] }

\* retry_names: the status code each name of the document stands for.
RetryNames == [ UNAVAILABLE       |-> "StatusCode.UNAVAILABLE",
                DEADLINE_EXCEEDED |-> "StatusCode.DEADLINE_EXCEEDED" ]

\* A RetryOptions a caller passes in retry_override.
OverrideRetryOptions ==
    [ retry_codes      |-> {"StatusCode.ABORTED"},
      backoff_settings |->
          [ initial_retry_delay_millis |-> 1,
            retry_delay_multiplier     |-> 1,
            max_retry_delay_millis     |-> 1,
            initial_rpc_timeout_millis |-> 1,
            rpc_timeout_multiplier     |-> 1,
            max_rpc_timeout_millis     |-> 1,
            total_timeout_millis       |-> 1 ] ]

\* The dictionaries from some of the keys to the values.
Dicts(keys, values) == UNION { [ d -> values ] : d \in SUBSET keys }

RetryOverrides == Dicts({Name_get, Name_li_fo}, {None, OverrideRetryOptions})

BundlingOverrides == Dicts({Name_li_fo}, {None})

BundleDescriptorMaps ==
    Dicts({Name_li_fo}, { [ request_discriminator_fields |-> << "topic" >> ] })

PageDescriptorMaps == Dicts({Name_get}, PageDescriptors)

ConstructSettingsArgs ==
    [ service_name       : ServiceNames,
      client_config      : ClientConfigs,
      bundling_override  : BundlingOverrides,
      retry_override     : RetryOverrides,
      retry_names        : {RetryNames},
      timeout            : Timeouts,
      bundle_descriptors : BundleDescriptorMaps,
      page_descriptors   : {CHOOSE d \in PageDescriptorMaps : DOMAIN d # {}} ]

\* ------------------------------------------- construct_settings: functions
\* dict.get(key, default)
DictGet(dict, key, default) ==
    IF key \in DOMAIN dict THEN dict[key] ELSE default

\* An exception leaving a helper.
Raises(type) == [ raises |-> type ]

RECURSIVE CamelTail(_)
\* The loop of _upper_camel_to_lower_under over string[1:].
CamelTail(string) ==
    IF string = << >> THEN << >>
    ELSE (IF IsUpper(Head(string)) THEN << "_", Lower(Head(string)) >>
          ELSE << Head(string) >>) \o CamelTail(Tail(string))

upper_camel_to_lower_under(string) ==
    IF string = << >> THEN << >>
    ELSE << Lower(Head(string)) >> \o CamelTail(Tail(string))

\* BackoffSettings(**params_struct)
BackoffSettings(params_struct) ==
    [ initial_retry_delay_millis |-> params_struct.initial_retry_delay_millis,
      retry_delay_multiplier     |-> params_struct.retry_delay_multiplier,
      max_retry_delay_millis     |-> params_struct.max_retry_delay_millis,
      initial_rpc_timeout_millis |-> params_struct.initial_rpc_timeout_millis,
      rpc_timeout_multiplier     |-> params_struct.rpc_timeout_multiplier,
      max_rpc_timeout_millis     |-> params_struct.max_rpc_timeout_millis,
      total_timeout_millis       |-> params_struct.total_timeout_millis ]

\* RetryOptions(retry_codes, backoff_settings)
RetryOptions(codes, backoff_settings) ==
    [ retry_codes |-> codes, backoff_settings |-> backoff_settings ]

\* The codes the loop over retry_codes leaves in `codes`.  The codes are
\* kept as the set of the list's items.
CodesFor(method_config, retry_codes, retry_names) ==
    LET codes_name == method_config["retry_codes_name"] IN
    IF codes_name \in DOMAIN retry_codes /\ retry_codes[codes_name] # << >>
    THEN { retry_names[retry_codes[codes_name][k]] :
               k \in 1..Len(retry_codes[codes_name]) }
    ELSE {}

construct_retry_TolerantParams(method_config, method_retry_override, retry_codes, retry_params, retry_names) ==
    IF method_retry_override # OPTION_INHERIT
    THEN method_retry_override
    ELSE LET codes == CodesFor(method_config, retry_codes, retry_names) IN
         IF "retry_params_name" \in DOMAIN method_config
            /\ method_config["retry_params_name"] \in DOMAIN retry_params
         THEN RetryOptions(codes, BackoffSettings(
                  retry_params[method_config["retry_params_name"]]))
         ELSE RetryOptions(codes, None)

construct_retry_OverrideKeepsCodes(method_config, method_retry_override, retry_codes, retry_params, retry_names) ==
    LET codes == CodesFor(method_config, retry_codes, retry_names) IN
    IF method_retry_override = None
    THEN None
    ELSE IF method_retry_override # OPTION_INHERIT
    THEN RetryOptions(codes, method_retry_override.backoff_settings)
    ELSE IF "retry_params_name" \in DOMAIN method_config
    THEN IF method_config["retry_params_name"] \in DOMAIN retry_params
         THEN RetryOptions(codes, BackoffSettings(
                  retry_params[method_config["retry_params_name"]]))
         ELSE Raises("TypeError")
    ELSE RetryOptions(codes, None)

\* _construct_retry.  BackoffSettings(**params_struct) raises TypeError
\* when params_struct is still None.
construct_retry(method_config, method_retry_override, retry_codes, retry_params, retry_names) ==
    IF method_retry_override # OPTION_INHERIT
    THEN method_retry_override
    ELSE LET codes == CodesFor(method_config, retry_codes, retry_names) IN
         IF "retry_params_name" \in DOMAIN method_config
         THEN IF method_config["retry_params_name"] \in DOMAIN retry_params
              THEN RetryOptions(codes, BackoffSettings(
                       retry_params[method_config["retry_params_name"]]))
              ELSE Raises("TypeError")
         ELSE RetryOptions(codes, None)

\* BundleOptions out of the document's bundling entry: params.get(name, 0)
BundleOptions(params) ==
    [ element_count_threshold |-> DictGet(params, "element_count_threshold", 0),
      element_count_limit     |-> DictGet(params, "element_count_limit", 0),
      request_byte_threshold  |-> DictGet(params, "request_byte_threshold", 0),
      request_byte_limit      |-> DictGet(params, "request_byte_limit", 0),
      delay_threshold         |-> DictGet(params, "delay_threshold_millis", 0) ]

\* bundling.Executor(options)
Executor(options) == [ executor |-> options ]

\* _construct_bundling
construct_bundling(method_config, method_bundling_override, bundle_descriptor) ==
    IF "bundling" \in DOMAIN method_config /\ bundle_descriptor # None
    THEN IF method_bundling_override = OPTION_INHERIT
         THEN Executor(BundleOptions(method_config["bundling"]))
         ELSE IF method_bundling_override # None
              THEN Executor(method_bundling_override)
              ELSE None
    ELSE None

\* CallSettings(timeout, retry, page_descriptor, bundler, bundle_descriptor)
CallSettings(a_timeout, a_retry, page_descriptor, bundler, bundle_descriptor) ==
    [ timeout           |-> a_timeout,
      retry             |-> a_retry,
      page_descriptor   |-> page_descriptor,
      flatten_pages     |-> "None",
      bundler           |-> bundler,
      bundle_descriptor |-> bundle_descriptor ]

\* defaults[key] = value
DictSet(dict, key, value) ==
    [ k \in DOMAIN dict \cup {key} |-> IF k = key THEN value ELSE dict[k] ]

EmptyDict == [ k \in {} |-> None ]

\* -------------------------------------------- construct_settings: actions
\* The entry of construct_settings: the lookup of the service.
ConstructSettings ==
    /\ cs_pc = "start"
    /\ IF cs_args.service_name \in DOMAIN cs_args.client_config["interfaces"]
       THEN /\ cs_pc' = "loop"
            /\ todo' = DOMAIN cs_args.client_config["interfaces"]
                           [cs_args.service_name]["methods"]
            /\ cs_raised' = cs_raised
       ELSE /\ cs_pc' = "raised"
            /\ cs_raised' = "KeyError"
            /\ todo' = todo
    /\ UNCHANGED << retry_vars, page_vars, call_vars, stream_vars, cs_args, defaults,
                    cs_returned >>

\* One turn of the loop over the methods; the dictionary gives them in no
\* particular order.
ForMethod(method) ==
    /\ cs_pc = "loop"
    /\ method \in todo
    /\ LET service_config ==
               cs_args.client_config["interfaces"][cs_args.service_name]
           method_config == service_config["methods"][method]
           snake_name == upper_camel_to_lower_under(method)
           bundle_descriptor ==
               DictGet(cs_args.bundle_descriptors, snake_name, None)
           bundler ==
               construct_bundling(
                   method_config,
                   DictGet(cs_args.bundling_override, snake_name,
                           OPTION_INHERIT),
                   bundle_descriptor)
           a_retry ==
               construct_retry(
                   method_config,
                   DictGet(cs_args.retry_override, snake_name,
                           OPTION_INHERIT),
                   service_config["retry_codes"],
                   service_config["retry_params"],
                   cs_args.retry_names)
       IN  IF a_retry = Raises("TypeError")
           THEN /\ cs_pc' = "raised"
                /\ cs_raised' = "TypeError"
                /\ UNCHANGED << defaults, todo >>
           ELSE /\ defaults' = DictSet(defaults, snake_name,
                       CallSettings(
                           cs_args.timeout, a_retry,
                           DictGet(cs_args.page_descriptors, snake_name,
                                   None),
                           bundler, bundle_descriptor))
                /\ todo' = todo \ {method}
                /\ UNCHANGED << cs_pc, cs_raised >>
    /\ UNCHANGED << retry_vars, page_vars, call_vars, stream_vars, cs_args, cs_returned >>

\* return defaults
ConstructSettingsReturns ==
    /\ cs_pc = "loop"
    /\ todo = {}
    /\ cs_pc' = "returned"
    /\ cs_returned' = defaults
    /\ UNCHANGED << retry_vars, page_vars, call_vars, stream_vars, cs_args, defaults,
                    todo, cs_raised >>

SettingsStart ==
    /\ cs_pc = "start"
    /\ todo = {}
    /\ defaults = EmptyDict
    /\ cs_raised = "none"
    /\ cs_returned = None

SettingsInit ==
    /\ cs_args \in ConstructSettingsArgs
    /\ SettingsStart

\* construct_settings is not part of the run.
SettingsUnused ==
    /\ cs_args = None
    /\ SettingsStart

SettingsNext ==
    \/ ConstructSettings
    \/ \E method \in MethodNames : ForMethod(method)
    \/ ConstructSettingsReturns

\* ------------------------------------- flattened round a retried a_func
\* The retry invocations a stream can make: one for each page.
PageInvocations == 1..MaxPages

FetchInvocation_Shared == IF calls = 0 THEN calls + 1 ELSE calls

\* Each evaluation of a_func(request, **kwargs) at line 186 is a call of
\* inner of _retryable of its own: the one after those that answered.
FetchInvocation == calls + 1

\* No a_func call has been made by flattened.
StreamStart == fetch_at = << >>

\* create_api_call gave flattened page streaming round the given wrapper.
FlattenedRound(wrapper) ==
    /\ api_call.status = "callable"
    /\ Outermost(api_call) = "_page_streamable"
    /\ api_call.flatten_pages = "True"
    /\ Innermost(api_call) = wrapper

\* The caller calls the API call: flattened gives its generator.
StreamFlattened ==
    /\ FlattenedRound("_retryable")
    /\ Flattened

\* response = a_func(request, **kwargs), line 186, with inner of _retryable
\* as a_func: inner is entered.
PageFetchCalls ==
    /\ FlattenedRound("_retryable")
    /\ pulling
    /\ gen_pc = "fetch"
    /\ gen_pc' = "retrying"
    /\ fetch_at' = Append(fetch_at, clock)
    /\ UNCHANGED << retry_vars, call_vars, settings_vars, pages, request,
                    pulling, response, pos, calls, called_with, yielded,
                    pulls >>

\* What inner of _retryable returns stands for the page: PageFetchReturns
\* gives the page itself.
PageResponses == {"resp_a"}

\* inner of _retryable runs on the request flattened passed it.
PageFetchRetries ==
    /\ gen_pc = "retrying"
    /\ \E i \in {FetchInvocation} :
           \/ Invoke(i)
           \/ LoopEnter(i)
           \/ LoopExit(i)
           \/ \E resp \in PageResponses, d \in CallDurations :
                  CallReturns(i, resp, d)
           \/ \E code \in StatusCodes, d \in CallDurations :
                  CallRaisesFatal(i, Exception(code, attempts[i] + 1), d)
           \/ \E code \in StatusCodes, d \in CallDurations :
                  CallRaisesTransient(i, Exception(code, attempts[i] + 1), d)
           \/ \E to_sleep \in UniformDraws(delay[i]) : Backoff(i, to_sleep)

\* inner returned the response of the call that answered: the page the
\* request's token asks for.
PageFetchReturns ==
    /\ gen_pc = "retrying"
    /\ pc[FetchInvocation] = "done"
    /\ outcome[FetchInvocation] = "returned"
    /\ response' = Serve(request)
    /\ calls' = calls + 1
    /\ called_with' = Append(called_with, request.page_token)
    /\ pos' = 1
    /\ gen_pc' = "iterate"
    /\ UNCHANGED << retry_vars, outer_vars, pages, request, pulling, yielded,
                    pulls >>

\* inner raised its RetryError: it leaves the generator, which is over.
PageFetchRaises ==
    /\ gen_pc = "retrying"
    /\ pc[FetchInvocation] = "done"
    /\ outcome[FetchInvocation] = "raised"
    /\ gen_pc' = "raised"
    /\ pulling' = FALSE
    /\ UNCHANGED << retry_vars, outer_vars, pages, request, response, pos,
                    calls, called_with, yielded, pulls >>

StreamNext ==
    \/ CreateApiCall
    \/ StreamFlattened
    \/ Pull
    \/ PageFetchCalls
    \/ PageFetchRetries
    \/ PageFetchReturns
    \/ PageFetchRaises
    \/ Yield
    \/ Break
    \/ CarryToken

\* ---------------------------------------------------------- specifications
Init == RetryInit /\ PageUnused /\ CallUnused /\ SettingsUnused /\ StreamStart

Next == RetryNext

\* One invocation of a retry-wrapped callable.
Spec == Init /\ [][Next]_vars

\* The invoking thread keeps running: a sleep returns and a call answers.
LiveSpec == Init /\ [][Next]_vars /\ WF_vars(Next)

\* Two invocations of one retry-wrapped callable, on two threads.  Their
\* steps interleave in every order; the clock is the one thing they share,
\* and each step that takes time moves it on.
Threads == {1, 2}

ConcRetryOptionsSet ==
    [ retry_codes      : {{"UNAVAILABLE", "DEADLINE_EXCEEDED"}},
      backoff_settings :
          [ initial_retry_delay_millis : {2},
            retry_delay_multiplier     : {2},
            max_retry_delay_millis     : {1000},
            initial_rpc_timeout_millis : {1},
            rpc_timeout_multiplier     : {2},
            max_rpc_timeout_millis     : {4},
            total_timeout_millis       : {2, 3} ] ]

\* Every call of the underlying callable takes time.
ConcStubSet ==
    [ always_transient : BOOLEAN,
      min_latency      : {DivMillis(Real(1))} ]

ConcInit ==
    /\ retry \in ConcRetryOptionsSet
    /\ a_func \in ConcStubSet
    /\ RetryStartOver(Threads)
    /\ PageUnused
    /\ CallUnused
    /\ SettingsUnused
    /\ StreamStart

ConcNext ==
    \E i \in Threads :
        \/ Invoke(i)
        \/ LoopEnter(i)
        \/ LoopExit(i)
        \/ \E resp \in Responses, d \in CallDurations : CallReturns(i, resp, d)
        \/ \E code \in StatusCodes, d \in CallDurations :
               CallRaisesFatal(i, Exception(code, attempts[i] + 1), d)
        \/ \E code \in StatusCodes, d \in CallDurations :
               CallRaisesTransient(i, Exception(code, attempts[i] + 1), d)
        \/ \E to_sleep \in UniformDraws(delay[i]) : Backoff(i, to_sleep)

ConcSpec == ConcInit /\ [][ConcNext]_vars

\* One use of a flattened page-streaming callable by one consumer.
PageSpecInit == RetryUnused /\ PageInit /\ CallUnused /\ SettingsUnused /\ StreamStart

PageSpec == PageSpecInit /\ [][PageNext]_vars

\* create_api_call on one CallSettings, and the use of the API call it
\* gives.  The bare callable takes time on every call.
ApiInit ==
    /\ CallInit
    /\ retry = [ retry_codes |-> {}, backoff_settings |-> NoBackoffSettings ]
    /\ a_func \in [ always_transient : BOOLEAN,
                    min_latency      : {DivMillis(Real(1))} ]
    /\ RetryStart
    /\ PageUnused
    /\ SettingsUnused
    /\ StreamStart

ApiSpec == ApiInit /\ [][CallNext]_vars

\* One call of construct_settings.
SettingsSpecInit ==
    /\ RetryUnused
    /\ PageUnused
    /\ CallUnused
    /\ SettingsInit
    /\ StreamStart

SettingsSpec == SettingsSpecInit /\ [][SettingsNext]_vars

\* create_api_call on settings with retry and flattened page streaming, and
\* one consumer of the stream.  The bare callable takes time on every call.
StreamSettingsSet ==
    { s \in CallSettingsSet :
          /\ RetryConfigured(s)
          /\ s.page_descriptor # None
          /\ s.flatten_pages \in {"None", "True"}
          /\ s.bundler = None
          /\ s.bundle_descriptor = None }

\* The fixtures whose pages all lead to the next one.
StreamFixtures ==
    { f \in Fixtures : \A k \in 1..(Len(f) - 1) : f[k].more }

StreamInit ==
    /\ settings \in StreamSettingsSet
    /\ api_errors = {}
    /\ CallStart
    /\ retry = [ retry_codes |-> {}, backoff_settings |-> NoBackoffSettings ]
    /\ a_func \in [ always_transient : BOOLEAN,
                    min_latency      : {DivMillis(Real(1))} ]
    /\ RetryStartOver(PageInvocations)
    /\ pages \in { [ k \in DOMAIN f |-> Page(f, k) ] : f \in StreamFixtures }
    /\ PageStart
    /\ SettingsUnused
    /\ StreamStart

StreamSpec == StreamInit /\ [][StreamNext]_vars

\* ------------------------------------------------------- retry: properties
IsCode(x) == x \in StatusCodes

DeadlineExceeded(i) ==
    /\ outcome[i] = "raised"
    /\ raised[i].msg \in {MsgBeforeAnyResponse, MsgWithException}

\* Once inner has ended, it calls nothing and sleeps no more.
EndedIsFinal ==
    \A i \in Invocations :
        pc[i] = "done" =>
            /\ attempts'[i] = attempts[i]
            /\ sleeps'[i] = sleeps[i]
            /\ outcome'[i] = outcome[i]

\* C1: an attempt that fails with a code outside retry_codes ends the
\* invocation in the same step with the non-retryable RetryError whose cause
\* is that attempt's error; every sleep so far followed an earlier attempt,
\* and nothing is called or slept afterwards.
C1_FatalState ==
    \A i \in Invocations :
        (IsCode(answered[i]) /\ answered[i] \notin retry.retry_codes) =>
            /\ pc[i] = "done"
            /\ outcome[i] = "raised"
            /\ raised[i] = RetryError(MsgNotTransient,
                                      Exception(answered[i], attempts[i]))
            /\ sleeps[i] = attempts[i] - 1

C1_NonRetryableFailsAtOnce == []C1_FatalState /\ [][EndedIsFinal]_vars

C1_Witness ==
    \E i \in Invocations :
        /\ answered[i] = "INVALID_ARGUMENT"
        /\ attempts[i] >= 2
        /\ outcome[i] = "raised"
        /\ clock < deadline[i]

\* C2: an attempt that succeeds ends the invocation in the same step, the
\* response is returned as the underlying call gave it, the sleeps so far
\* are one per earlier attempt (none when it is the first attempt), and
\* nothing is called or slept afterwards.
C2_SuccessState ==
    \A i \in Invocations :
        (answered[i] \in Responses) =>
            /\ pc[i] = "done"
            /\ outcome[i] = "returned"
            /\ returned[i] = answered[i]
            /\ sleeps[i] = attempts[i] - 1

C2_FirstSuccessEnds == []C2_SuccessState /\ [][EndedIsFinal]_vars

C2_Witness ==
    \E i \in Invocations :
        /\ outcome[i] = "returned"
        /\ returned[i] = "resp_b"
        /\ attempts[i] = 1
        /\ sleeps[i] = 0
        /\ clock < deadline[i]

\* C3: with an underlying call that fails transiently every time, the
\* invocation never returns, it fails only with the deadline-exceeded
\* RetryError and only once the clock is at least total_timeout past its
\* start, and, when every call takes time, it does fail.
C3_OnlyDeadline ==
    \A i \in Invocations :
        a_func.always_transient =>
            /\ outcome[i] # "returned"
            /\ outcome[i] = "raised" =>
                   /\ DeadlineExceeded(i)
                   /\ clock >= started_at[i] + total_timeout

C3_AlwaysTransientEndsInDeadline ==
    /\ []C3_OnlyDeadline
    /\ \A i \in Invocations :
           (a_func.always_transient /\ a_func.min_latency > 0)
               ~> DeadlineExceeded(i)

C3_Witness ==
    \E i \in Invocations :
        /\ a_func.always_transient
        /\ a_func.min_latency > 0
        /\ DeadlineExceeded(i)
        /\ attempts[i] >= 2
        /\ total_timeout > 0

\* C4 as stated: an invocation that fails with deadline exceeded has called
\* the underlying callable at least once, whatever total_timeout is.
C4_Original ==
    \A i \in Invocations : DeadlineExceeded(i) => attempts[i] >= 1

\* C4 amended: it has called the underlying callable at least once when
\* total_timeout > 0, and not at all when total_timeout = 0.
C4_AttemptedUnlessZeroTotal ==
    \A i \in Invocations :
        DeadlineExceeded(i) =>
            /\ total_timeout > 0 => attempts[i] >= 1
            /\ total_timeout = 0 => attempts[i] = 0

C4_Witness ==
    \E i \in Invocations :
        /\ a_func.always_transient
        /\ DeadlineExceeded(i)
        /\ total_timeout > 0
        /\ attempts[i] = 1

RECURSIVE Pow(_, _)
Pow(b, n) == IF n = 0 THEN 1 ELSE b * Pow(b, n - 1)

\* min(initial_retry_delay * retry_delay_multiplier^(k-1), max_retry_delay),
\* both in milliseconds, as the stored number of seconds it is.
StatedSleepBound(k) ==
    DivMillis(Real(Min2(retry.backoff_settings.initial_retry_delay_millis
                            * Pow(delay_mult, k - 1),
                        retry.backoff_settings.max_retry_delay_millis)))

\* C5 as stated: the k-th backoff sleep is drawn from
\* [0, min(initial * multiplier^(k-1), max)], initial and max in one unit.
C5_SleepBounds ==
    \A i \in Invocations :
        sleeps[i] >= 1 =>
            /\ 0 <= slept[i]
            /\ slept[i] <= slept_bound[i]
            /\ DivMillis(slept_bound[i]) = StatedSleepBound(sleeps[i])

\* C6 as stated: from one attempt to the next the timeout handed over does
\* not decrease, unless it is capped at max_rpc_timeout.
C6_Original ==
    \A i \in Invocations :
        (timeout_mult >= 1 /\ attempts[i] >= 2) =>
            \/ passed[i] >= passed_prev[i]
            \/ passed[i] = max_timeout

\* C6 amended: it does not decrease unless it is capped at max_rpc_timeout
\* or at the time remaining until the deadline.
C6_NonDecreasingUnlessCapped ==
    \A i \in Invocations :
        (timeout_mult >= 1 /\ attempts[i] >= 2) =>
            \/ passed[i] >= passed_prev[i]
            \/ passed[i] = max_timeout
            \/ passed[i] = remaining[i]

C6_Witness ==
    \E i \in Invocations :
        /\ attempts[i] >= 2
        /\ passed[i] < passed_prev[i]
        /\ passed[i] = remaining[i]
        /\ passed[i] # max_timeout

\* C7 as stated: the timeout handed to any attempt, the first included, is
\* at most deadline - now.
C7_Original ==
    \A i \in Invocations : attempts[i] >= 1 => passed[i] <= remaining[i]

\* C7 amended: the timeout handed to any attempt after the first is at most
\* deadline - now.
C7_WithinRemainingAfterFirst ==
    \A i \in Invocations : attempts[i] >= 2 => passed[i] <= remaining[i]

C7_Witness ==
    \E i \in Invocations :
        /\ attempts[i] >= 2
        /\ passed[i] = remaining[i]
        /\ passed[i] < max_timeout
        /\ passed[i] < passed_prev[i] * timeout_mult

\* C8: the deadline-exceeded RetryError carries the error of the latest
\* attempt, which failed transiently; it is the causeless "before any
\* response" error exactly when no attempt was made; and an error raised
\* with a transient cause is the deadline-exceeded one.
C8_DeadlineCause ==
    \A i \in Invocations :
        /\ DeadlineExceeded(i) =>
               /\ attempts[i] >= 1 =>
                      /\ answered[i] \in retry.retry_codes
                      /\ raised[i] = RetryError(MsgWithException,
                                        Exception(answered[i], attempts[i]))
               /\ attempts[i] = 0 <=> raised[i] = InitialExc
        /\ (outcome[i] = "raised" /\ raised[i].cause.code \in retry.retry_codes)
               => raised[i].msg = MsgWithException
        /\ outcome[i] = "returned" => returned[i] \in Responses

C8_Witness ==
    \E i \in Invocations :
        /\ DeadlineExceeded(i)
        /\ attempts[i] >= 2
        /\ raised[i].cause = Exception("DEADLINE_EXCEEDED", attempts[i])

C8_WitnessNoAttempt ==
    \E i \in Invocations : DeadlineExceeded(i) /\ attempts[i] = 0

\* ----------------------------------------------- page streaming: properties
\* The first page of the fixture that answers with the empty token.
FirstEmpty ==
    CHOOSE k \in 1..Len(pages) :
        /\ pages[k].next_page_token = EmptyToken
        /\ \A j \in 1..(k - 1) : pages[j].next_page_token # EmptyToken

RECURSIVE Concat(_)
\* The resources of pages 1..k, page after page.
Concat(k) == IF k = 0 THEN << >> ELSE Concat(k - 1) \o pages[k].resources

IsPrefix(a, b) == Len(a) <= Len(b) /\ a = SubSeq(b, 1, Len(a))

SizesAre(sizes) ==
    /\ Len(pages) = Len(sizes)
    /\ \A k \in 1..Len(sizes) : Len(pages[k].resources) = sizes[k]
    /\ FirstEmpty = Len(pages)

\* C9: what the consumer has been handed is always the beginning of the
\* pages' resources in page and element order, no call goes past the first
\* page that answers with the empty token, and when the stream ends the
\* consumer has all of them, from one call per page, each call asking for the
\* page after the one before.
C9_FlattenedYieldsAllPages ==
    /\ IsPrefix(yielded, Concat(FirstEmpty))
    /\ calls <= FirstEmpty
    /\ gen_pc = "finished" =>
           /\ yielded = Concat(FirstEmpty)
           /\ calls = FirstEmpty
           /\ called_with = [ k \in 1..FirstEmpty |-> k - 1 ]

C9_Witness ==
    /\ gen_pc = "finished"
    /\ SizesAre(<< 2, 2, 1 >>)
    /\ Len(yielded) = 5
    /\ calls = 3

\* The page that holds the n-th element of the stream.
PageOfElement(n) == Concat(FirstEmpty)[n][1]

\* C10: nothing is called before the consumer asks for the first element;
\* the calls made never exceed the page that holds the last element asked
\* for; and a call is made only while the consumer is asking for one.
C10_CallsFollowPulls ==
    /\ pulls = 0 => calls = 0
    /\ (pulls >= 1 /\ pulls <= Len(Concat(FirstEmpty))) =>
           calls <= PageOfElement(pulls)

C10_Lazy == []C10_CallsFollowPulls /\ [][calls' # calls => pulling]_vars

C10_Witness ==
    /\ SizesAre(<< 2, 2, 1 >>)
    /\ gen_pc = "iterate"
    /\ ~pulling
    /\ pulls = 2
    /\ Len(yielded) = 2
    /\ calls = 1

\* ------------------------------------------------ retry: timeouts handed over
\* C18: no attempt is handed a timeout <= 0, and an invocation whose timeout
\* came out <= 0 after a backoff sleep ends at its next step with the
\* deadline-exceeded error, without another call.
C18_HandedPositive ==
    \A i \in Invocations : attempts[i] >= 1 => passed[i] > 0

C18_NonPositiveEnds ==
    \A i \in Invocations :
        (pc[i] = "loop" /\ sleeps[i] >= 1 /\ timeout[i] <= 0 /\ pc'[i] # pc[i]) =>
            /\ pc'[i] = "done"
            /\ attempts'[i] = attempts[i]
            /\ outcome'[i] = "raised"
            /\ raised'[i].msg = MsgWithException

C18_NoNonPositiveTimeout == []C18_HandedPositive /\ [][C18_NonPositiveEnds]_vars

C18_Witness ==
    \E i \in Invocations :
        /\ DeadlineExceeded(i)
        /\ sleeps[i] >= 2
        /\ timeout[i] < 0
        /\ attempts[i] = sleeps[i]

C18_WitnessZero ==
    \E i \in Invocations :
        DeadlineExceeded(i) /\ sleeps[i] >= 1 /\ timeout[i] = 0

\* ------------------------------------------ page streaming: the request token
\* C20: every underlying call after the first is made with the request
\* carrying the non-empty token of the response before it, and when the
\* stream has ended the caller's request still carries the token of the last
\* call.
C20_TokenThreaded ==
    /\ \A k \in 2..Len(called_with) :
           /\ called_with[k] = pages[called_with[k - 1] + 1].next_page_token
           /\ called_with[k] # EmptyToken
    /\ (gen_pc = "finished" /\ calls >= 2) =>
           /\ request.page_token = pages[FirstEmpty - 1].next_page_token
           /\ request.page_token # EmptyToken
           /\ request.page_token = called_with[Len(called_with)]

C20_Witness ==
    /\ gen_pc = "finished"
    /\ SizesAre(<< 2, 2, 1 >>)
    /\ called_with = << 0, 1, 2 >>
    /\ request.page_token = 2

\* ------------------------------------------------ retry: two invocations
\* Everything one invocation holds.
Locals(i) ==
    << pc[i], delay[i], timeout[i], exc[i], now[i], deadline[i], outcome[i],
       returned[i], raised[i], started_at[i], attempts[i], sleeps[i],
       passed[i], passed_prev[i], remaining[i], answered[i], slept[i],
       slept_bound[i] >>

RECURSIVE DelayAfter(_)
\* The delay an invocation running alone holds after k backoff sleeps.
DelayAfter(k) == IF k = 0 THEN InitialDelay ELSE NextDelay(DelayAfter(k - 1))

\* What an invocation running alone holds, given its own clock readings and
\* its own calls' outcomes.
AsIfAlone(i) ==
    pc[i] # "idle" =>
        /\ deadline[i] = started_at[i] + total_timeout
        /\ delay[i] = DelayAfter(sleeps[i])
        /\ sleeps[i] >= 1 => slept_bound[i] = DelayAfter(sleeps[i] - 1)
        /\ attempts[i] = 1 => passed[i] = InitialTimeout
        /\ attempts[i] >= 2 =>
               passed[i] = Min3(passed_prev[i] * timeout_mult, max_timeout,
                                remaining[i])
        /\ sleeps[i] = 0 => (timeout[i] = InitialTimeout /\ now[i] = started_at[i])
        /\ sleeps[i] >= 1 => timeout[i] <= deadline[i] - now[i]

\* A step that is not a step of invocation i leaves all it holds as it was.
OthersUntouched ==
    \A i \in Threads : pc'[i] = pc[i] => Locals(i)' = Locals(i)

\* C17: in every interleaving of two invocations, each one's deadline,
\* delays and timeouts are those it would hold running alone with the same
\* clock readings and call outcomes, and no step of one changes anything the
\* other holds.
C17_InvocationsIsolated ==
    /\ [](\A i \in Threads : AsIfAlone(i))
    /\ [][OthersUntouched]_vars

C17_Witness ==
    \E i, j \in Threads :
        /\ i # j
        /\ sleeps[i] = 1 /\ pc[i] = "call"
        /\ sleeps[j] = 0 /\ pc[j] = "call"
        /\ delay[i] # delay[j]
        /\ deadline[i] # deadline[j]
        /\ timeout[i] # timeout[j]

\* ---------------------------------------------- create_api_call: properties
Incompatible(s) ==
    /\ s.page_descriptor # None
    /\ s.bundler # None
    /\ s.bundle_descriptor # None

\* C11: create_api_call on settings that have a page descriptor together
\* with both a bundler and a bundle descriptor raises ValueError: it gives
\* no callable, and neither func nor the bundler is ever called.
C11_IncompatibleSettingsFail ==
    Incompatible(settings) =>
        /\ api_call.status \in {"uncomposed", "ValueError"}
        /\ api_call.layers = << >>
        /\ api_pc = "idle"
        /\ func_calls = << >>
        /\ scheduled = << >>
        /\ \A i \in Invocations : attempts[i] = 0

C11_Witness ==
    /\ Incompatible(settings)
    /\ api_call.status = "ValueError"

RetryOnly(s) ==
    /\ s.retry # None
    /\ s.retry.retry_codes # {}
    /\ s.page_descriptor = None
    /\ ~ (s.bundler # None /\ s.bundle_descriptor # None)

\* C12 as stated: with a non-empty RetryOptions and neither page streaming
\* nor bundling, the error-wrapping decorator is not part of the call.
C12_Original ==
    (api_call.status = "callable" /\ RetryOnly(settings)) =>
        \A k \in 1..Len(api_call.layers) :
            api_call.layers[k] # "_catch_errors"

\* C12: with neither page streaming nor bundling the error-wrapping
\* decorator is the outermost wrapper whether or not the retry decorator
\* is inside it, and a RetryError the retry decorator raises goes through
\* it to the caller unchanged.
C12_CatchErrorsRoundRetry ==
    /\ ( /\ api_call.status = "callable"
         /\ settings.page_descriptor = None
         /\ ~ (settings.bundler # None /\ settings.bundle_descriptor # None) )
       => api_call.layers[Len(api_call.layers)] = "_catch_errors"
    /\ ( /\ api_call.status = "callable"
         /\ RetryOnly(settings)
         /\ api_pc = "done"
         /\ inner_outcome = "raised" )
       => /\ api_call.layers = << "_retryable", "_catch_errors" >>
          /\ inner_raised.type = "RetryError"
          /\ api_outcome = "raised"
          /\ api_raised = inner_raised

C12_Witness ==
    /\ RetryOnly(settings)
    /\ api_pc = "done"
    /\ api_call.layers = << "_retryable", "_catch_errors" >>
    /\ api_outcome = "raised"
    /\ api_raised.type = "RetryError"

\* An exception of this type is an instance of one of the recognized types.
Recognized(type) == type \in api_errors \/ BaseOf(type) \in api_errors

\* C13: a call composed with error wrapping returns a response unchanged,
\* raises GaxError('RPC failed') whose cause is the original error when the
\* error is one of the recognized transport errors, and raises any other
\* error unchanged.
C13_CatchErrors ==
    ( /\ api_call.status = "callable"
      /\ api_call.layers[Len(api_call.layers)] = "_catch_errors"
      /\ api_pc = "done" )
    => /\ inner_outcome = "returned" =>
              /\ api_outcome = "returned"
              /\ api_returned = inner_returned
       /\ (inner_outcome = "raised" /\ Recognized(inner_raised.type)) =>
              /\ api_outcome = "raised"
              /\ api_raised = [ type  |-> "GaxError",
                                msg   |-> "RPC failed",
                                cause |-> inner_raised ]
       /\ (inner_outcome = "raised" /\ ~ Recognized(inner_raised.type)) =>
              /\ api_outcome = "raised"
              /\ api_raised = inner_raised
       /\ api_call.layers[1] = "_add_timeout_arg" =>
              /\ Len(func_calls) = 1
              /\ inner_outcome \in {"returned", "raised"}

C13_Witness ==
    /\ api_pc = "done"
    /\ api_call.layers = << "_add_timeout_arg", "_catch_errors" >>
    /\ inner_raised.type = "ExpirationError"
    /\ api_errors = {"AbortionError"}
    /\ api_raised.type = "GaxError"
    /\ api_raised.cause = inner_raised

\* C14: each invocation of a bundling call makes exactly one call of
\* bundler.schedule, with the wrapped callable, the key made of the
\* request's discriminator fields, the bundle descriptor, the request and
\* the keyword arguments, and returns the handle schedule gave; func is
\* never called.
C14_OneSchedulePerInvocation ==
    ( /\ api_call.status = "callable"
      /\ api_call.layers[Len(api_call.layers)] = "_bundleable" )
    => /\ Len(scheduled) = Len(handed_back)
       /\ \A k \in 1..Len(scheduled) :
              LET fields ==
                      settings.bundle_descriptor.request_discriminator_fields
              IN  /\ scheduled[k].a_func = api_call.layers[1]
                  /\ Len(scheduled[k].the_id) = Len(fields)
                  /\ \A f \in 1..Len(fields) :
                         scheduled[k].the_id[f] =
                             handed_back[k].request[fields[f]]
                  /\ scheduled[k].desc = settings.bundle_descriptor
                  /\ scheduled[k].request = handed_back[k].request
                  /\ scheduled[k].kwargs = handed_back[k].kwargs
                  /\ handed_back[k].event = scheduled[k].event
       /\ func_calls = << >>
       /\ \A i \in Invocations : attempts[i] = 0

C14_Witness ==
    /\ api_call.status = "callable"
    /\ api_call.layers[Len(api_call.layers)] = "_bundleable"
    /\ Len(scheduled) = MaxBundled
    /\ Len(settings.bundle_descriptor.request_discriminator_fields) > 1
    /\ scheduled[1].the_id # scheduled[2].the_id
    /\ scheduled[1].kwargs # scheduled[2].kwargs
    /\ handed_back[1].event # handed_back[2].event

\* C19: the innermost wrapper is the retry decorator exactly when
\* settings.retry is present with some retry codes, and the timeout
\* injection otherwise, under which every call of func gets
\* settings.timeout as its last positional argument; exactly one of page
\* streaming, bundling and error wrapping is put outside it.
C19_InnermostByRetryAlone ==
    api_call.status = "callable" =>
        /\ Len(api_call.layers) = 2
        /\ api_call.layers[1] =
               IF settings.retry # None /\ settings.retry.retry_codes # {}
               THEN "_retryable" ELSE "_add_timeout_arg"
        /\ api_call.layers[2] =
               IF settings.page_descriptor # None THEN "_page_streamable"
               ELSE IF settings.bundler # None
                       /\ settings.bundle_descriptor # None
                    THEN "_bundleable" ELSE "_catch_errors"
        /\ api_call.layers[1] = "_add_timeout_arg" =>
               \A k \in 1..Len(func_calls) :
                   /\ func_calls[k].args = << api_request, settings.timeout >>
                   /\ func_calls[k].kw = api_kwargs
        /\ api_call.layers[1] = "_retryable" => func_calls = << >>

C19_Witness ==
    /\ api_call.status = "callable"
    /\ settings.retry # None
    /\ settings.retry.retry_codes = {}
    /\ api_call.layers[1] = "_add_timeout_arg"
    /\ Len(func_calls) = 1
    /\ func_calls[1].args[2] = settings.timeout

C19_WitnessRetry ==
    /\ api_call.status = "callable"
    /\ api_call.layers[1] = "_retryable"
    /\ \E i \in Invocations : attempts[i] > 1

\* ------------------------------------------- construct_settings: properties
Document == cs_args.client_config["interfaces"][ServiceName]

\* The canonical name of each method of the document.
CanonicalName(method) ==
    IF method = << "G", "e", "t" >> THEN << "g", "e", "t" >>
    ELSE << "l", "i", "_", "f", "o" >>

\* The status codes each retry_codes entry of the document lists.
ListedCodes(codes_name) ==
    IF codes_name = "idempotent"
    THEN {"StatusCode.UNAVAILABLE", "StatusCode.DEADLINE_EXCEEDED"}
    ELSE {}

Inherits(method) == CanonicalName(method) \notin DOMAIN cs_args.retry_override

NamesParams(method) ==
    "retry_params_name" \in DOMAIN Document["methods"][method]

DanglingParams(method) ==
    /\ NamesParams(method)
    /\ Document["methods"][method]["retry_params_name"]
           \notin DOMAIN Document["retry_params"]

DanglingCodes(method) ==
    Document["methods"][method]["retry_codes_name"]
        \notin DOMAIN Document["retry_codes"]

\* C15: the retry of a method's CallSettings is the retry_override entry
\* under the method's canonical name when there is one, an explicit
\* RetryOptions as it is and None as no retry; with no entry it is the
\* RetryOptions of the codes and the params the method names in the
\* document.
C15_RetryByOverride ==
    /\ DOMAIN defaults \subseteq { CanonicalName(m) : m \in MethodNames }
    /\ cs_pc = "returned" =>
           /\ cs_returned = defaults
           /\ DOMAIN cs_returned = { CanonicalName(m) : m \in MethodNames }
    /\ \A method \in MethodNames :
           LET key == CanonicalName(method)
               method_config == Document["methods"][method]
           IN  key \in DOMAIN defaults =>
                   /\ ~ Inherits(method) =>
                          defaults[key].retry = cs_args.retry_override[key]
                   /\ ( /\ Inherits(method)
                        /\ NamesParams(method)
                        /\ ~ DanglingCodes(method) ) =>
                          defaults[key].retry =
                              [ retry_codes |->
                                    ListedCodes(
                                        method_config["retry_codes_name"]),
                                backoff_settings |->
                                    Document["retry_params"]
                                        [method_config["retry_params_name"]] ]

C15_Witness ==
    /\ cs_pc = "returned"
    /\ ~ Inherits(Name_Get)
    /\ cs_args.retry_override[Name_get] = OverrideRetryOptions
    /\ Document["methods"][Name_Get]["retry_codes_name"] = "idempotent"
    /\ NamesParams(Name_Get)
    /\ cs_returned[Name_get].retry = OverrideRetryOptions
    /\ Inherits(Name_LiFo)
    /\ NamesParams(Name_LiFo)
    /\ cs_returned[Name_li_fo].retry.retry_codes =
           {"StatusCode.UNAVAILABLE", "StatusCode.DEADLINE_EXCEEDED"}

C15_WitnessDisabled ==
    /\ cs_pc = "returned"
    /\ ~ Inherits(Name_LiFo)
    /\ cs_returned[Name_li_fo].retry = None

C16_WitnessTolerated ==
    /\ cs_pc = "returned"
    /\ Inherits(Name_Get)
    /\ DanglingCodes(Name_Get)
    /\ ~ Inherits(Name_LiFo)
    /\ DanglingParams(Name_LiFo)

\* --------------------------------- flattened round a retried a_func: properties
\* The token the request of the k-th page fetch carries.
TokenOfFetch(k) ==
    IF k = 1 THEN EmptyToken ELSE pages[k - 1].next_page_token

\* C21: with retry and flattened page streaming both configured the retry
\* decorator is inside the page streaming one, so every page fetch is one
\* retry invocation of its own: its deadline is the clock at that fetch
\* plus total_timeout and it starts from the initial delay and timeout; a
\* fetch that is being retried carries the token of the page before it, no
\* token is asked for twice, and the consumer is handed the pages'
\* resources in order, none of them twice.
C21_RetryPerPageFetch ==
    /\ api_call.status = "callable" =>
           api_call.layers = << "_retryable", "_page_streamable" >>
    /\ Len(fetch_at) \in {calls, calls + 1}
    /\ gen_pc = "retrying" => Len(fetch_at) = calls + 1
    /\ \A k \in 1..MaxPages :
           LET backoff == settings.retry.backoff_settings IN
           /\ k > Len(fetch_at) => pc[k] = "idle" /\ attempts[k] = 0
           /\ k <= calls =>
                  /\ pc[k] = "done"
                  /\ outcome[k] = "returned"
                  /\ attempts[k] >= 1
                  /\ called_with[k] = TokenOfFetch(k)
           /\ (k <= Len(fetch_at) /\ pc[k] # "idle") =>
                  /\ started_at[k] = fetch_at[k]
                  /\ deadline[k] = fetch_at[k]
                         + DivMillis(Real(backoff.total_timeout_millis))
                  /\ sleeps[k] = 0 =>
                         delay[k] = Real(backoff.initial_retry_delay_millis)
                  /\ attempts[k] = 1 =>
                         passed[k] =
                             DivMillis(Real(backoff.initial_rpc_timeout_millis))
                  /\ k > 1 => fetch_at[k] > fetch_at[k - 1]
           /\ (gen_pc = "retrying" /\ k = calls + 1) =>
                  request.page_token = TokenOfFetch(k)
    /\ \A j, k \in 1..Len(called_with) :
           j < k => called_with[j] < called_with[k]
    /\ IsPrefix(yielded, Concat(calls))
    /\ \A a, b \in 1..Len(yielded) : a < b => yielded[a] # yielded[b]

C21_Witness ==
    /\ calls >= 2
    /\ attempts[1] >= 2
    /\ attempts[2] >= 2
    /\ sleeps[2] >= 1
    /\ outcome[2] = "returned"
    /\ called_with = << 0, 1 >>
    /\ deadline[2] > deadline[1]
    /\ Len(yielded) >= 2
    /\ yielded[Len(yielded)][1] = 2

C21_WitnessRaised ==
    /\ gen_pc = "raised"
    /\ calls = 1
    /\ outcome[2] = "raised"
    /\ Len(yielded) >= 1

====
